---- MODULE Spec2Model ----
(***************************************************************************)
(* Data-access layer of the CRM backend (server/storage.ts, class          *)
(* DatabaseStorage): lead identifier allocation (createLead), the lead     *)
(* query composer (getLeads) and the cascading lead deletion (deleteLead), *)
(* run by concurrent request handlers against one relational store.       *)
(*                                                                         *)
(* Every `await db....` of the source is one atomic step of the store;     *)
(* the synchronous code between two awaits belongs to the step that        *)
(* precedes it.  A handler is a process p with a program counter pc[p],    *)
(* its locals loc[p] and the outcome of its last call ret[p].              *)
(***************************************************************************)
EXTENDS Integers, Sequences, FiniteSets, TLC

VARIABLES
    leads,            \* table leads: set of rows
    calls,            \* table calls: set of rows [id, leadId]
    scheduledCalls,   \* table scheduled_calls: set of rows [id, leadId]
    timesheets,       \* table timesheets: set of rows [id, leadId] (leadId 0 = NULL)
    activities,       \* table activities: set of rows
    teamMembers,      \* table team_members: set of rows
    nextId,           \* the serial primary-key counters, one per table
    currentYear,      \* the calendar year the clock shows
    now,              \* the time the clock shows (new Date(), defaultNow())
    issued,           \* the leadIds createLead has returned, in order (the log)
    pc,               \* pc[p]: where handler p stands
    loc,              \* loc[p]: the locals of handler p's current call
    ret               \* ret[p]: outcome of handler p's last completed call

vars == <<leads, calls, scheduledCalls, timesheets, activities, teamMembers, nextId,
          currentYear, now, issued, pc, loc, ret>>

(***************************************************************************)
(* Bounds of the model.                                                    *)
(***************************************************************************)
NumProcs == 2          \* concurrent request handlers
MaxLeads == 3          \* rows the leads serial may hand out
MaxCascadeLeads == 1   \* leads stored before the deletions or updates start
MaxCalls == 2          \* rows the calls serial may hand out
MaxScheduledCalls == 1 \* rows the scheduled_calls serial may hand out
MaxTimesheets == 1     \* rows the timesheets serial may hand out
MaxYearTicks == 1      \* new years the clock may pass
MaxTicks == 2          \* instants the clock may pass
MaxUsers == 2          \* users that have a team member row

Procs == 1..NumProcs

(***************************************************************************)
(* Strings are sequences of one-character strings.                         *)
(***************************************************************************)
Digits == <<"0", "1", "2", "3", "4", "5", "6", "7", "8", "9">>

IsDigit(c) == \E i \in 1..10 : Digits[i] = c

DigitVal(c) == (CHOOSE i \in 1..10 : Digits[i] = c) - 1

\* Number.prototype.toString(): the decimal digits of n >= 0, no padding.
RECURSIVE ToDecimal(_)
ToDecimal(n) ==
    IF n < 10 THEN <<Digits[n + 1]>>
    ELSE ToDecimal(n \div 10) \o <<Digits[(n % 10) + 1]>>

\* String.prototype.padStart(width, "0"): pads on the left, never truncates.
RECURSIVE PadStart(_, _)
PadStart(s, width) ==
    IF Len(s) >= width THEN s ELSE PadStart(<<"0">> \o s, width)

\* parseInt of a string made of decimal digits only.
RECURSIVE ParseDigits(_)
ParseDigits(s) ==
    IF s = <<>> THEN 0
    ELSE 10 * ParseDigits(SubSeq(s, 1, Len(s) - 1)) + DigitVal(s[Len(s)])

AllDigits(s) == \A i \in 1..Len(s) : IsDigit(s[i])

\* SQL  column LIKE 'prefix%'
StartsWith(s, prefix) ==
    /\ Len(s) >= Len(prefix)
    /\ SubSeq(s, 1, Len(prefix)) = prefix

(***************************************************************************)
(* server/utils/lead-utils.ts.                                             *)
(***************************************************************************)
FirstYear == 2025      \* the year the clock shows at the start
PrefixWidth == 2       \* two-digit year prefix
SuffixWidth == 4       \* zero-padded width of the sequence number

YearPrefix(year) == PadStart(ToDecimal(year % 100), PrefixWidth)

getCurrentYearPrefix == YearPrefix(currentYear)

\* The numeric suffix of a leadId; a missing or unparsable suffix counts as 0.
extractLeadNumber(leadId) ==
    LET suffix == SubSeq(leadId, PrefixWidth + 1, Len(leadId))
    IN  IF Len(leadId) > PrefixWidth /\ AllDigits(suffix)
        THEN ParseDigits(suffix)
        ELSE 0

\* The sequence number n as the zero-padded suffix of a leadId.
Suffix(n) == PadStart(ToDecimal(n), SuffixWidth)

generateLeadId(lastLeadNumber) ==
    getCurrentYearPrefix \o Suffix(lastLeadNumber + 1)

(***************************************************************************)
(* shared/schema.ts: the tables and their constraints.                     *)
(***************************************************************************)
\* An InsertLead: the columns a caller supplies.
DefaultInput ==
    [status |-> <<"n">>, assignedToUserId |-> 0,
     propertyAddress |-> <<"a">>, ownerName |-> <<"b">>,
     ownerPhone |-> <<"1">>, ownerEmail |-> <<"c">>,
     city |-> <<"a">>, state |-> <<"a">>]

\* Row of table leads as the insert of createLead writes it: id from the
\* serial, createdAt from the column default, the rest from the values.
LeadRow(id, leadId, input, time) ==
    [id |-> id, leadId |-> leadId,
     status |-> input.status,
     assignedToUserId |-> input.assignedToUserId,
     propertyAddress |-> input.propertyAddress,
     ownerName |-> input.ownerName,
     ownerPhone |-> input.ownerPhone,
     ownerEmail |-> input.ownerEmail,
     city |-> input.city, state |-> input.state,
     createdAt |-> time, updatedAt |-> time]

\* leads.lead_id is declared unique: an insert of a stored leadId is refused.
LeadIdTaken(leadId) == \E l \in leads : l.leadId = leadId

LeadExists(id) == \E l \in leads : l.id = id

Referenced(id) ==
    \/ \E c \in calls : c.leadId = id
    \/ \E s \in scheduledCalls : s.leadId = id
    \/ \E t \in timesheets : t.leadId = id

\* A schema whose lead_id columns are plain integers.
ForeignKeyHolds_plainColumn(leadId) == TRUE

\* calls.lead_id, scheduled_calls.lead_id and timesheets.lead_id are foreign
\* keys to leads.id without a cascade rule: a dependent row of an absent lead
\* is refused, and so is the removal of a lead that dependents still reference.
ForeignKeyHolds(leadId) == LeadExists(leadId)

RemovalRefused(id) == LeadExists(id) /\ Referenced(id)

(***************************************************************************)
(* Handlers.                                                               *)
(***************************************************************************)
\* A LeadFilters with every field absent.  An absent number is 0 where the
\* source tests truthiness and Absent where it tests typeof; an absent
\* string or array is the empty one, which the source treats alike.
Absent == -1

NoFilters ==
    [status |-> {}, search |-> <<>>, assignedToUserId |-> 0,
     createdByUserId |-> 0, sortBy |-> "", sortOrder |-> "",
     limit |-> Absent, offset |-> Absent]

\* An InsertTeamMember of no call.
NoTeamMember == [userId |-> 0, role |-> ""]

NoLocals ==
    [id |-> 0, input |-> DefaultInput, latestLead |-> {}, newLeadId |-> <<>>,
     attempts |-> 0,
     relatedCalls |-> {}, relatedScheduledCalls |-> {}, relatedTimesheets |-> {},
     filters |-> NoFilters, creatorFilter |-> FALSE, uniqueLeadIds |-> {},
     insertTeamMember |-> NoTeamMember, existingMember |-> {}]

NoReturn == [op |-> "none", status |-> "none", rows |-> <<>>]

\* The call settles its promise: ret[p] is what the caller awaits.
Return(p, op, status, rows) ==
    /\ pc' = [pc EXCEPT ![p] = "done"]
    /\ ret' = [ret EXCEPT ![p] = [op |-> op, status |-> status, rows |-> rows]]

\* The caller has taken the outcome; the handler is free for its next call.
Respond(p) ==
    /\ pc[p] = "done"
    /\ pc' = [pc EXCEPT ![p] = "idle"]
    /\ loc' = [loc EXCEPT ![p] = NoLocals]
    /\ ret' = [ret EXCEPT ![p] = NoReturn]
    /\ UNCHANGED <<leads, calls, scheduledCalls, timesheets, activities, teamMembers,
                   nextId, currentYear, now, issued>>

\* A select that orders ascending: the oldest lead of the prefix.
LatestLeadWithPrefix_asc(prefix) ==
    LET matching == {l \in leads : StartsWith(l.leadId, prefix)}
    IN  {l \in matching : \A m \in matching : m.id >= l.id}

\* A select without the where clause: the latest lead of any year.
LatestLeadWithPrefix_anyYear(prefix) ==
    {l \in leads : \A m \in leads : m.id <= l.id}

\* .where(like(leads.leadId, prefix%)).orderBy(desc(leads.id)).limit(1)
LatestLeadWithPrefix(prefix) ==
    LET matching == {l \in leads : StartsWith(l.leadId, prefix)}
    IN  {l \in matching : \A m \in matching : m.id <= l.id}

\* line 269 with the row's id in place of the parsed number
LastLeadNumber_rowId(latestLead) ==
    IF latestLead # {} THEN (CHOOSE l \in latestLead : TRUE).id ELSE 0

\* line 269: latestLead ? extractLeadNumber(latestLead.leadId) : 0
LastLeadNumber(latestLead) ==
    IF latestLead # {}
    THEN extractLeadNumber((CHOOSE l \in latestLead : TRUE).leadId)
    ELSE 0

\* createLead, lines 259-274: the select of the latest lead of the current
\* year prefix, then (synchronously, once the select resolves) the number
\* extraction and the generation of the new identifier.
CreateLeadRead(p) ==
    /\ pc[p] = "idle"
    /\ nextId.leads <= MaxLeads
    /\ \E input \in {DefaultInput} :
       \E dbOk \in BOOLEAN :
         IF dbOk
         THEN LET latest == LatestLeadWithPrefix(getCurrentYearPrefix)
                  lastLeadNumber == LastLeadNumber(latest)
              IN  /\ loc' = [loc EXCEPT ![p] =
                               [NoLocals EXCEPT !.input = input,
                                                !.latestLead = latest,
                                                !.attempts = 1,
                                                !.newLeadId = generateLeadId(lastLeadNumber)]]
                  /\ pc' = [pc EXCEPT ![p] = "createLead_insert"]
                  /\ ret' = [ret EXCEPT ![p] = NoReturn]
         ELSE \* the select throws: catch, log, rethrow (lines 288-291)
              /\ loc' = [loc EXCEPT ![p] = [NoLocals EXCEPT !.input = input]]
              /\ Return(p, "createLead", "error", <<>>)
    /\ UNCHANGED <<leads, calls, scheduledCalls, timesheets, activities, teamMembers,
                   nextId, currentYear, now, issued>>

\* createLead, lines 277-291: the insert with the generated identifier.
CreateLeadInsert(p) ==
    /\ pc[p] = "createLead_insert"
    /\ \E dbOk \in BOOLEAN :
         IF ~dbOk
         THEN /\ Return(p, "createLead", "error", <<>>)
              /\ UNCHANGED <<leads, nextId, issued>>
         ELSE IF LeadIdTaken(loc[p].newLeadId)
         THEN \* unique violation: the insert throws, createLead rethrows
              /\ Return(p, "createLead", "conflict", <<>>)
              /\ UNCHANGED <<leads, nextId, issued>>
         ELSE LET lead == LeadRow(nextId.leads, loc[p].newLeadId, loc[p].input, now)
              IN  /\ leads' = leads \cup {lead}
                  /\ nextId' = [nextId EXCEPT !.leads = @ + 1]
                  /\ issued' = Append(issued, lead.leadId)   \* line 286
                  /\ Return(p, "createLead", "ok", <<lead>>)
    /\ UNCHANGED <<calls, scheduledCalls, timesheets, activities, teamMembers,
                   currentYear, now, loc>>

\* The clock passes into the next year.
NewYear ==
    /\ currentYear < FirstYear + MaxYearTicks
    /\ currentYear' = currentYear + 1
    /\ UNCHANGED <<leads, calls, scheduledCalls, timesheets, activities, teamMembers,
                   nextId, now, issued, pc, loc, ret>>

(***************************************************************************)
(* deleteLead, lines 306-351.  Each statement is its own implicit          *)
(* transaction: the source opens none.  A statement that throws is caught, *)
(* logged and rethrown (lines 347-350); what earlier statements removed    *)
(* stays removed.                                                          *)
(***************************************************************************)
Throw(p, op) == Return(p, op, "error", <<>>)

\* line 311: select the calls of the lead
DeleteLeadSelectCalls(p, id) ==
    /\ pc[p] = "idle"
    /\ \E dbOk \in BOOLEAN :
         IF dbOk
         THEN /\ loc' = [loc EXCEPT ![p] =
                           [NoLocals EXCEPT !.id = id,
                              !.relatedCalls = {c \in calls : c.leadId = id}]]
              /\ pc' = [pc EXCEPT ![p] = "deleteLead_calls"]
              /\ ret' = [ret EXCEPT ![p] = NoReturn]
         ELSE /\ loc' = [loc EXCEPT ![p] = [NoLocals EXCEPT !.id = id]]
              /\ Throw(p, "deleteLead")
    /\ UNCHANGED <<leads, calls, scheduledCalls, timesheets, activities, teamMembers,
                   nextId, currentYear, now, issued>>

\* A first step that goes on without deleting the calls.
DeleteLeadCalls_skipped(p) ==
    /\ pc[p] = "deleteLead_calls"
    /\ \E dbOk \in BOOLEAN :
         IF dbOk
         THEN /\ calls' = calls
              /\ pc' = [pc EXCEPT ![p] = "deleteLead_selectScheduledCalls"]
              /\ UNCHANGED ret
         ELSE /\ Throw(p, "deleteLead")
              /\ UNCHANGED calls
    /\ UNCHANGED <<leads, scheduledCalls, timesheets, activities, teamMembers,
                   nextId, currentYear, now, issued, loc>>

\* A delete of calls without its where clause.
DeleteLeadCalls_noWhere(p) ==
    /\ pc[p] = "deleteLead_calls"
    /\ \E dbOk \in BOOLEAN :
         IF dbOk
         THEN /\ calls' = {}
              /\ pc' = [pc EXCEPT ![p] = "deleteLead_selectScheduledCalls"]
              /\ UNCHANGED ret
         ELSE /\ Throw(p, "deleteLead")
              /\ UNCHANGED calls
    /\ UNCHANGED <<leads, scheduledCalls, timesheets, activities, teamMembers,
                   nextId, currentYear, now, issued, loc>>

\* lines 315-317: delete the calls of the lead
DeleteLeadCalls(p) ==
    /\ pc[p] = "deleteLead_calls"
    /\ \E dbOk \in BOOLEAN :
         IF dbOk
         THEN /\ calls' = {c \in calls : c.leadId # loc[p].id}
              /\ pc' = [pc EXCEPT ![p] = "deleteLead_selectScheduledCalls"]
              /\ UNCHANGED ret
         ELSE /\ Throw(p, "deleteLead")
              /\ UNCHANGED calls
    /\ UNCHANGED <<leads, scheduledCalls, timesheets, activities, teamMembers,
                   nextId, currentYear, now, issued, loc>>

\* line 321: select the scheduled calls of the lead
DeleteLeadSelectScheduledCalls(p) ==
    /\ pc[p] = "deleteLead_selectScheduledCalls"
    /\ \E dbOk \in BOOLEAN :
         IF dbOk
         THEN /\ loc' = [loc EXCEPT ![p].relatedScheduledCalls =
                           {c \in scheduledCalls : c.leadId = loc[p].id}]
              /\ pc' = [pc EXCEPT ![p] = "deleteLead_scheduledCalls"]
              /\ UNCHANGED ret
         ELSE /\ Throw(p, "deleteLead")
              /\ UNCHANGED loc
    /\ UNCHANGED <<leads, calls, scheduledCalls, timesheets, activities, teamMembers,
                   nextId, currentYear, now, issued>>

\* lines 325-327: delete the scheduled calls of the lead
DeleteLeadScheduledCalls(p) ==
    /\ pc[p] = "deleteLead_scheduledCalls"
    /\ \E dbOk \in BOOLEAN :
         IF dbOk
         THEN /\ scheduledCalls' = {c \in scheduledCalls : c.leadId # loc[p].id}
              /\ pc' = [pc EXCEPT ![p] = "deleteLead_selectTimesheets"]
              /\ UNCHANGED ret
         ELSE /\ Throw(p, "deleteLead")
              /\ UNCHANGED scheduledCalls
    /\ UNCHANGED <<leads, calls, timesheets, activities, teamMembers,
                   nextId, currentYear, now, issued, loc>>

\* line 331: select the timesheets of the lead
DeleteLeadSelectTimesheets(p) ==
    /\ pc[p] = "deleteLead_selectTimesheets"
    /\ \E dbOk \in BOOLEAN :
         IF dbOk
         THEN /\ loc' = [loc EXCEPT ![p].relatedTimesheets =
                           {t \in timesheets : t.leadId = loc[p].id}]
              /\ pc' = [pc EXCEPT ![p] = "deleteLead_timesheets"]
              /\ UNCHANGED ret
         ELSE /\ Throw(p, "deleteLead")
              /\ UNCHANGED loc
    /\ UNCHANGED <<leads, calls, scheduledCalls, timesheets, activities, teamMembers,
                   nextId, currentYear, now, issued>>

\* lines 335-337: delete the timesheets of the lead
DeleteLeadTimesheets(p) ==
    /\ pc[p] = "deleteLead_timesheets"
    /\ \E dbOk \in BOOLEAN :
         IF dbOk
         THEN /\ timesheets' = {t \in timesheets : t.leadId # loc[p].id}
              /\ pc' = [pc EXCEPT ![p] = "deleteLead_lead"]
              /\ UNCHANGED ret
         ELSE /\ Throw(p, "deleteLead")
              /\ UNCHANGED timesheets
    /\ UNCHANGED <<leads, calls, scheduledCalls, activities, teamMembers,
                   nextId, currentYear, now, issued, loc>>

\* A where clause that matches no row.
LeadsWithout_noMatch(id) == leads

\* lines 341-343: db.delete(leads).where(eq(leads.id, id))
LeadsWithout(id) == {l \in leads : l.id # id}

\* lines 341-346: delete the lead row, return true
DeleteLeadRow(p) ==
    /\ pc[p] = "deleteLead_lead"
    /\ \E dbOk \in BOOLEAN :
         IF ~dbOk
         THEN /\ Throw(p, "deleteLead")
              /\ UNCHANGED leads
         ELSE IF RemovalRefused(loc[p].id)
         THEN \* foreign-key violation: the delete throws, deleteLead rethrows
              /\ Return(p, "deleteLead", "refused", <<>>)
              /\ UNCHANGED leads
         ELSE /\ leads' = LeadsWithout(loc[p].id)
              /\ Return(p, "deleteLead", "true", <<>>)
    /\ UNCHANGED <<calls, scheduledCalls, timesheets, activities, teamMembers,
                   nextId, currentYear, now, issued, loc>>

(***************************************************************************)
(* The dependents of a lead: one insert each.                              *)
(***************************************************************************)
\* createCall, lines 379-385
createCall(insertCall) ==
    /\ nextId.calls <= MaxCalls
    /\ ForeignKeyHolds(insertCall.leadId)
    /\ calls' = calls \cup {[id |-> nextId.calls, leadId |-> insertCall.leadId]}
    /\ nextId' = [nextId EXCEPT !.calls = @ + 1]
    /\ UNCHANGED <<leads, scheduledCalls, timesheets, activities, teamMembers,
                   currentYear, now, issued, pc, loc, ret>>

\* createScheduledCall, lines 436-445
createScheduledCall(insertScheduledCall) ==
    /\ nextId.scheduledCalls <= MaxScheduledCalls
    /\ ForeignKeyHolds(insertScheduledCall.leadId)
    /\ scheduledCalls' = scheduledCalls \cup
           {[id |-> nextId.scheduledCalls, leadId |-> insertScheduledCall.leadId]}
    /\ nextId' = [nextId EXCEPT !.scheduledCalls = @ + 1]
    /\ UNCHANGED <<leads, calls, timesheets, activities, teamMembers,
                   currentYear, now, issued, pc, loc, ret>>

\* createTimesheet, lines 568-574; leadId 0 stands for NULL (no lead)
createTimesheet(insertTimesheet) ==
    /\ nextId.timesheets <= MaxTimesheets
    /\ insertTimesheet.leadId # 0 => ForeignKeyHolds(insertTimesheet.leadId)
    /\ timesheets' = timesheets \cup
           {[id |-> nextId.timesheets, leadId |-> insertTimesheet.leadId]}
    /\ nextId' = [nextId EXCEPT !.timesheets = @ + 1]
    /\ UNCHANGED <<leads, calls, scheduledCalls, activities, teamMembers,
                   currentYear, now, issued, pc, loc, ret>>

\* getLead, getCall, getScheduledCall, getTimesheet: the rows with the id
getLead(id) == {l \in leads : l.id = id}
getCall(id) == {c \in calls : c.id = id}
getScheduledCall(id) == {c \in scheduledCalls : c.id = id}
getTimesheet(id) == {t \in timesheets : t.id = id}

(***************************************************************************)
(* Team members, lines 475-509.                                            *)
(***************************************************************************)
\* The clock moves on between any two statements.
Tick ==
    /\ now < MaxTicks
    /\ now' = now + 1
    /\ UNCHANGED <<leads, calls, scheduledCalls, timesheets, activities,
                   teamMembers, nextId, currentYear, issued, pc, loc, ret>>

\* getTeamMember, lines 475-481: the rows of the user
getTeamMember(userId) == {m \in teamMembers : m.userId = userId}

\* A schema whose team_members.user_id is a plain column.
UserIdTaken_plainColumn(userId) == FALSE

\* team_members.user_id is declared unique: an insert for a user that has
\* a row is refused.
UserIdTaken(userId) == getTeamMember(userId) # {}

\* An update that sets the supplied fields and leaves lastActivityAt alone.
UpdatedMember_keepsActivity(m, insertTeamMember, time) ==
    [m EXCEPT !.role = insertTeamMember.role]

\* lines 490-494: .set({...insertTeamMember, lastActivityAt: new Date()})
UpdatedMember(m, insertTeamMember, time) ==
    [m EXCEPT !.role = insertTeamMember.role, !.lastActivityAt = time]

\* lines 485: const existingMember = await this.getTeamMember(userId)
TeamMemberLookup(p, insertTeamMember) ==
    /\ pc[p] = "idle"
    /\ \E dbOk \in BOOLEAN :
         IF dbOk
         THEN /\ loc' = [loc EXCEPT ![p] =
                           [NoLocals EXCEPT
                              !.insertTeamMember = insertTeamMember,
                              !.existingMember = getTeamMember(insertTeamMember.userId)]]
              /\ pc' = [pc EXCEPT ![p] = "createOrUpdateTeamMember_write"]
              /\ ret' = [ret EXCEPT ![p] = NoReturn]
         ELSE /\ loc' = [loc EXCEPT ![p] =
                           [NoLocals EXCEPT !.insertTeamMember = insertTeamMember]]
              /\ Return(p, "createOrUpdateTeamMember", "error", <<>>)
    /\ UNCHANGED <<leads, calls, scheduledCalls, timesheets, activities,
                   teamMembers, nextId, currentYear, now, issued>>

\* lines 487-508: the update when a row was found, the insert otherwise
TeamMemberWrite(p) ==
    /\ pc[p] = "createOrUpdateTeamMember_write"
    /\ LET insertTeamMember == loc[p].insertTeamMember
           matching == getTeamMember(insertTeamMember.userId)
           updated == {UpdatedMember(m, insertTeamMember, now) : m \in matching}
           inserted == [id |-> nextId.teamMembers,
                        userId |-> insertTeamMember.userId,
                        role |-> insertTeamMember.role,
                        lastActivityAt |-> now]
       IN  \E dbOk \in BOOLEAN :
             IF ~dbOk
             THEN /\ Return(p, "createOrUpdateTeamMember", "error", <<>>)
                  /\ UNCHANGED <<teamMembers, nextId>>
             ELSE IF loc[p].existingMember # {}
             THEN /\ teamMembers' = (teamMembers \ matching) \cup updated
                  /\ UNCHANGED nextId
                  /\ IF updated = {}
                     THEN Return(p, "createOrUpdateTeamMember", "undefined", <<>>)
                     ELSE \E m \in updated :
                              Return(p, "createOrUpdateTeamMember", "ok", <<m>>)
             ELSE IF UserIdTaken(insertTeamMember.userId)
             THEN \* unique violation: the insert throws
                  /\ Return(p, "createOrUpdateTeamMember", "conflict", <<>>)
                  /\ UNCHANGED <<teamMembers, nextId>>
             ELSE /\ teamMembers' = teamMembers \cup {inserted}
                  /\ nextId' = [nextId EXCEPT !.teamMembers = @ + 1]
                  /\ Return(p, "createOrUpdateTeamMember", "ok", <<inserted>>)
    /\ UNCHANGED <<leads, calls, scheduledCalls, timesheets, activities,
                   currentYear, now, issued, loc>>

(***************************************************************************)
(* updateLead (294-304), updateScheduledCall (447-460), updateTimesheet    *)
(* (576-583).                                                              *)
(***************************************************************************)
\* Rows of scheduled_calls and timesheets with the columns the queries and
\* the updates read.
ScheduledCallRow(id, leadId, status, assignedCallerId, scheduledTime) ==
    [id |-> id, leadId |-> leadId, status |-> status,
     assignedCallerId |-> assignedCallerId, scheduledTime |-> scheduledTime,
     updatedAt |-> 0]

TimesheetRow(id, leadId, userId, date, approved) ==
    [id |-> id, leadId |-> leadId, userId |-> userId, date |-> date,
     approved |-> approved]

\* A Partial<Insert...>: the columns the caller supplies (set) and their
\* values (the fields of values named in set).
Partial(set, values) == [set |-> set, values |-> values]

\* A set clause that also writes a newly generated leadId.
Merged_newLeadId(row, data, stamp) ==
    [c \in DOMAIN row |->
        IF c \in data.set THEN data.values[c]
        ELSE IF c \in DOMAIN stamp THEN stamp[c]
        ELSE IF c = "leadId" THEN generateLeadId(extractLeadNumber(row.leadId))
        ELSE row[c]]

\* .set({...data, updatedAt: new Date()}): the supplied columns take the
\* supplied values, the stamped column the stamp, the others stay.
Merged(row, data, stamp) ==
    [c \in DOMAIN row |->
        IF c \in data.set THEN data.values[c]
        ELSE IF c \in DOMAIN stamp THEN stamp[c]
        ELSE row[c]]

\* An update that inserts the row when no row has the id.
UpdatedRows_upsert(table, id, data, stamp) ==
    IF \E r \in table : r.id = id
    THEN {IF r.id = id THEN Merged(r, data, stamp) ELSE r : r \in table}
    ELSE table \cup {[id |-> id]}

\* update(table).set(...).where(eq(table.id, id)): the table afterwards
UpdatedRows(table, id, data, stamp) ==
    {IF r.id = id THEN Merged(r, data, stamp) ELSE r : r \in table}

\* .returning() and const [row] = ...: the updated row, or undefined when
\* the where clause matched no row
ReturnUpdated(p, op, table, id) ==
    IF \E r \in table : r.id = id
    THEN Return(p, op, "ok", <<CHOOSE r \in table : r.id = id>>)
    ELSE Return(p, op, "undefined", <<>>)

\* updateLead, lines 294-304
updateLead(p, id, leadData) ==
    /\ pc[p] = "idle"
    /\ loc' = [loc EXCEPT ![p] = [NoLocals EXCEPT !.id = id]]
    /\ \E dbOk \in BOOLEAN :
         IF dbOk
         THEN /\ leads' = UpdatedRows(leads, id, leadData, [updatedAt |-> now])
              /\ ReturnUpdated(p, "updateLead", leads', id)
         ELSE /\ UNCHANGED leads
              /\ Throw(p, "updateLead")
    /\ UNCHANGED <<calls, scheduledCalls, timesheets, activities, teamMembers,
                   nextId, currentYear, now, issued>>

\* updateScheduledCall, lines 447-460
updateScheduledCall(p, id, scheduledCallData) ==
    /\ pc[p] = "idle"
    /\ loc' = [loc EXCEPT ![p] = [NoLocals EXCEPT !.id = id]]
    /\ \E dbOk \in BOOLEAN :
         IF dbOk
         THEN /\ scheduledCalls' = UpdatedRows(scheduledCalls, id, scheduledCallData,
                                               [updatedAt |-> now])
              /\ ReturnUpdated(p, "updateScheduledCall", scheduledCalls', id)
         ELSE /\ UNCHANGED scheduledCalls
              /\ Throw(p, "updateScheduledCall")
    /\ UNCHANGED <<leads, calls, timesheets, activities, teamMembers,
                   nextId, currentYear, now, issued>>

\* updateTimesheet, lines 576-583: the set clause holds timesheetData alone
updateTimesheet(p, id, timesheetData) ==
    /\ pc[p] = "idle"
    /\ loc' = [loc EXCEPT ![p] = [NoLocals EXCEPT !.id = id]]
    /\ \E dbOk \in BOOLEAN :
         IF dbOk
         THEN /\ timesheets' = UpdatedRows(timesheets, id, timesheetData,
                                           [none |-> 0])
              /\ ReturnUpdated(p, "updateTimesheet", timesheets', id)
         ELSE /\ UNCHANGED timesheets
              /\ Throw(p, "updateTimesheet")
    /\ UNCHANGED <<leads, calls, scheduledCalls, activities, teamMembers,
                   nextId, currentYear, now, issued>>

(***************************************************************************)
(* getLeads, lines 170-252.                                                *)
(***************************************************************************)
\* SQL  text LIKE pattern: % matches any run of characters, _ any one
\* character, every other character itself (case-sensitive).
RECURSIVE Like(_, _)
Like(text, pattern) ==
    IF pattern = <<>> THEN text = <<>>
    ELSE IF Head(pattern) = "%"
    THEN \/ Like(text, Tail(pattern))
         \/ text # <<>> /\ Like(Tail(text), pattern)
    ELSE /\ text # <<>>
         /\ Head(pattern) = "_" \/ Head(pattern) = Head(text)
         /\ Like(Tail(text), Tail(pattern))

\* The order of characters in the collation of the text columns.
Alphabet == <<"%", "1", "A", "_", "a", "b", "c", "n", "x">>

CharRank(c) == CHOOSE i \in 1..Len(Alphabet) : Alphabet[i] = c

RECURSIVE TextLeq(_, _)
TextLeq(s, t) ==
    IF s = <<>> THEN TRUE
    ELSE IF t = <<>> THEN FALSE
    ELSE IF Head(s) = Head(t) THEN TextLeq(Tail(s), Tail(t))
    ELSE CharRank(Head(s)) < CharRank(Head(t))

\* A lookup that leaves out the condition on actionType.
CreationTargets_anyAction(userId) ==
    {a.targetId : a \in {b \in activities : /\ b.userId = userId
                                            /\ b.targetType = "lead"}} \ {0}

\* lines 186-197: the distinct numeric targetIds of the "create" activities
\* on leads of the user (targetId 0 stands for NULL)
CreationTargets(userId) ==
    {a.targetId : a \in {b \in activities : /\ b.userId = userId
                                            /\ b.actionType = "create"
                                            /\ b.targetType = "lead"}} \ {0}

\* A composer that pushes the creator condition although the lookup failed.
MatchesFilters_creatorAlways(l, filters, creatorFilter, uniqueLeadIds) ==
    /\ filters.status # {} => l.status \in filters.status
    /\ filters.assignedToUserId # 0 => l.assignedToUserId = filters.assignedToUserId
    /\ filters.createdByUserId # 0 => l.id \in uniqueLeadIds
    /\ filters.search # <<>> =>
         LET searchTerm == <<"%">> \o filters.search \o <<"%">>
         IN  \/ Like(l.propertyAddress, searchTerm)
             \/ Like(l.ownerName, searchTerm)
             \/ Like(l.ownerPhone, searchTerm)
             \/ Like(l.ownerEmail, searchTerm)

\* A composer that joins the conditions with or(...).
MatchesFilters_or(l, filters, creatorFilter, uniqueLeadIds) ==
    \/ filters.status # {} /\ l.status \in filters.status
    \/ filters.assignedToUserId # 0 /\ l.assignedToUserId = filters.assignedToUserId
    \/ creatorFilter /\ l.id \in uniqueLeadIds
    \/ /\ filters.search # <<>>
       /\ LET searchTerm == <<"%">> \o filters.search \o <<"%">>
          IN  \/ Like(l.propertyAddress, searchTerm)
              \/ Like(l.ownerName, searchTerm)
              \/ Like(l.ownerPhone, searchTerm)
              \/ Like(l.ownerEmail, searchTerm)
    \/ /\ filters.status = {} /\ filters.assignedToUserId = 0
       /\ ~creatorFilter /\ filters.search = <<>>

\* lines 173-226: the conjunction of the conditions pushed for the filters
MatchesFilters(l, filters, creatorFilter, uniqueLeadIds) ==
    /\ filters.status # {} => l.status \in filters.status
    /\ filters.assignedToUserId # 0 => l.assignedToUserId = filters.assignedToUserId
    /\ creatorFilter => l.id \in uniqueLeadIds
    /\ filters.search # <<>> =>
         LET searchTerm == <<"%">> \o filters.search \o <<"%">>
         IN  \/ Like(l.propertyAddress, searchTerm)
             \/ Like(l.ownerName, searchTerm)
             \/ Like(l.ownerPhone, searchTerm)
             \/ Like(l.ownerEmail, searchTerm)

\* lines 228-238: sortColumnMap[filters.sortBy ?? ""] ?? leads.createdAt
SortableColumns ==
    {"createdAt", "updatedAt", "status", "ownerName", "propertyAddress",
     "city", "state"}

\* Keys every object literal inherits from Object.prototype: the lookup of
\* one in sortColumnMap yields a value that is no column and is not nullish.
InheritedKeys ==
    {"constructor", "toString", "valueOf", "hasOwnProperty", "__proto__"}

SortColumn(sortBy) ==
    IF sortBy \in SortableColumns THEN sortBy
    ELSE IF sortBy \in InheritedKeys THEN "notAColumn"
    ELSE "createdAt"

\* l is not after m in ascending order of the column
ColumnLeq(l, m, column) ==
    IF column \in {"createdAt", "updatedAt"}
    THEN l[column] <= m[column]
    ELSE TextLeq(l[column], m[column])

\* lines 239-241: the orders the store may return the rows in; rows equal
\* in the sort column come in any order.
Orderings(rows, column, sortOrder) ==
    {s \in [1..Cardinality(rows) -> rows] :
        /\ \A i, j \in DOMAIN s : i # j => s[i] # s[j]
        /\ column # "notAColumn" =>
             \A i, j \in DOMAIN s :
               i < j => IF sortOrder = "asc"
                        THEN ColumnLeq(s[i], s[j], column)
                        ELSE ColumnLeq(s[j], s[i], column)}

\* A page that tests limit and offset for truthiness: 0 counts as absent.
Page_truthy(s, limit, offset) ==
    LET from == IF offset = Absent THEN 0 ELSE offset
        rest == SubSeq(s, from + 1, Len(s))
    IN  IF limit = Absent \/ limit = 0 \/ limit >= Len(rest) THEN rest
        ELSE SubSeq(rest, 1, limit)

\* lines 243-249: OFFSET then LIMIT, each only when it is a number
Page(s, limit, offset) ==
    LET from == IF offset = Absent THEN 0 ELSE offset
        rest == SubSeq(s, from + 1, Len(s))
    IN  IF limit = Absent \/ limit >= Len(rest) THEN rest
        ELSE SubSeq(rest, 1, limit)

\* lines 171-208: the conditions, with the activity lookup when
\* createdByUserId is given.  A lookup that throws is caught and logged
\* (lines 205-207) and the query goes on without the creator condition.
GetLeadsConditions(p, filters) ==
    /\ pc[p] = "idle"
    /\ IF filters.createdByUserId = 0
       THEN /\ loc' = [loc EXCEPT ![p] = [NoLocals EXCEPT !.filters = filters]]
            /\ pc' = [pc EXCEPT ![p] = "getLeads_query"]
            /\ ret' = [ret EXCEPT ![p] = NoReturn]
       ELSE \E dbOk \in BOOLEAN :
            LET uniqueLeadIds == CreationTargets(filters.createdByUserId)
            IN  IF ~dbOk
                THEN /\ loc' = [loc EXCEPT ![p] = [NoLocals EXCEPT !.filters = filters]]
                     /\ pc' = [pc EXCEPT ![p] = "getLeads_query"]
                     /\ ret' = [ret EXCEPT ![p] = NoReturn]
                ELSE /\ loc' = [loc EXCEPT ![p] =
                                  [NoLocals EXCEPT !.filters = filters,
                                                   !.creatorFilter = TRUE,
                                                   !.uniqueLeadIds = uniqueLeadIds]]
                     /\ IF uniqueLeadIds = {}
                        THEN Return(p, "getLeads", "ok", <<>>)     \* line 201
                        ELSE /\ pc' = [pc EXCEPT ![p] = "getLeads_query"]
                             /\ ret' = [ret EXCEPT ![p] = NoReturn]
    /\ UNCHANGED <<leads, calls, scheduledCalls, timesheets, activities, teamMembers,
                   nextId, currentYear, now, issued>>

\* lines 222-251: the select with the conditions, the order and the page
GetLeadsQuery(p) ==
    /\ pc[p] = "getLeads_query"
    /\ \E dbOk \in BOOLEAN :
         IF ~dbOk
         THEN Throw(p, "getLeads")
         ELSE LET filters == loc[p].filters
                  matching == {l \in leads :
                                 MatchesFilters(l, filters, loc[p].creatorFilter,
                                                loc[p].uniqueLeadIds)}
              IN  \E s \in Orderings(matching, SortColumn(filters.sortBy),
                                     filters.sortOrder) :
                      Return(p, "getLeads", "ok",
                             Page(s, filters.limit, filters.offset))
    /\ UNCHANGED <<leads, calls, scheduledCalls, timesheets, activities, teamMembers,
                   nextId, currentYear, now, issued, loc>>

(***************************************************************************)
(* getScheduledCalls, lines 408-434, and getTimesheets, lines 538-566.     *)
(***************************************************************************)
\* Instants of the clock in one calendar day (UTC).
DayLength == 2

\* date.toISOString().slice(0, 10): the UTC calendar day of an instant
IsoDay(instant) == instant \div DayLength

\* A range built with gt and lt.
InRange_exclusive(value, start, end) ==
    /\ start # Absent => value > start
    /\ end # Absent => value < end

\* gte(column, start) and lte(column, end), each pushed only when given
InRange(value, start, end) ==
    /\ start # Absent => value >= start
    /\ end # Absent => value <= end

\* The orders a select ordered by a numeric column returns the rows in;
\* rows equal in the column come in any order.
Sorted(rows, column, descending) ==
    {s \in [1..Cardinality(rows) -> rows] :
        /\ \A i, j \in DOMAIN s : i # j => s[i] # s[j]
        /\ \A i, j \in DOMAIN s :
              i < j => IF descending THEN s[i][column] >= s[j][column]
                       ELSE s[i][column] <= s[j][column]}

\* getScheduledCalls, lines 408-434: status and userId are pushed when
\* truthy, the dates when given; the order is asc(scheduledTime).
getScheduledCalls(p, filters) ==
    /\ pc[p] = "idle"
    /\ loc' = [loc EXCEPT ![p] = [NoLocals EXCEPT !.filters = filters]]
    /\ \E dbOk \in BOOLEAN :
         IF ~dbOk
         THEN Throw(p, "getScheduledCalls")
         ELSE LET matching ==
                    {c \in scheduledCalls :
                        /\ filters.status # "" => c.status = filters.status
                        /\ filters.userId # 0 => c.assignedCallerId = filters.userId
                        /\ InRange(c.scheduledTime, filters.startDate, filters.endDate)}
              IN  \E s \in Sorted(matching, "scheduledTime", FALSE) :
                      Return(p, "getScheduledCalls", "ok", s)
    /\ UNCHANGED <<leads, calls, scheduledCalls, timesheets, activities,
                   teamMembers, nextId, currentYear, now, issued>>

\* getTimesheets, lines 538-566: userId is pushed when truthy, the dates
\* when given, as their calendar days, approved when it is not undefined
\* (a set with the value, empty for undefined); the order is desc(date).
getTimesheets(p, filters) ==
    /\ pc[p] = "idle"
    /\ loc' = [loc EXCEPT ![p] = [NoLocals EXCEPT !.filters = filters]]
    /\ \E dbOk \in BOOLEAN :
         IF ~dbOk
         THEN Throw(p, "getTimesheets")
         ELSE LET startDate == IF filters.startDate = Absent THEN Absent
                               ELSE IsoDay(filters.startDate)
                  endDate == IF filters.endDate = Absent THEN Absent
                             ELSE IsoDay(filters.endDate)
                  matching ==
                    {t \in timesheets :
                        /\ filters.userId # 0 => t.userId = filters.userId
                        /\ InRange(t.date, startDate, endDate)
                        /\ filters.approved # {} => t.approved \in filters.approved}
              IN  \E s \in Sorted(matching, "date", TRUE) :
                      Return(p, "getTimesheets", "ok", s)
    /\ UNCHANGED <<leads, calls, scheduledCalls, timesheets, activities,
                   teamMembers, nextId, currentYear, now, issued>>

(***************************************************************************)
(* Initial states and specifications.                                      *)
(***************************************************************************)
LeadIds == 1..MaxLeads

\* An empty store and the handlers procs, all idle.
InitEmpty(procs) ==
    /\ leads = {}
    /\ calls = {}
    /\ scheduledCalls = {}
    /\ timesheets = {}
    /\ activities = {}
    /\ teamMembers = {}
    /\ nextId = [leads |-> 1, calls |-> 1, scheduledCalls |-> 1, timesheets |-> 1, teamMembers |-> 1]
    /\ currentYear = FirstYear
    /\ now = 0
    /\ issued = <<>>
    /\ pc = [p \in procs |-> "idle"]
    /\ loc = [p \in procs |-> NoLocals]
    /\ ret = [p \in procs |-> NoReturn]

Handlers == DOMAIN pc

\* Rows as createLead wrote them in earlier calls.
StoredLead(id, leadId) == LeadRow(id, leadId, DefaultInput, 0)

\* One handler, call after call: leads are created and deleted in turn,
\* over the turn of a year.
InitSeq == InitEmpty({1})

NextSeq ==
    \/ \E p \in Handlers : CreateLeadRead(p)
    \/ \E p \in Handlers : CreateLeadInsert(p)
    \/ \E p \in Handlers : \E id \in LeadIds : DeleteLeadSelectCalls(p, id)
    \/ \E p \in Handlers : DeleteLeadCalls(p)
    \/ \E p \in Handlers : DeleteLeadSelectScheduledCalls(p)
    \/ \E p \in Handlers : DeleteLeadScheduledCalls(p)
    \/ \E p \in Handlers : DeleteLeadSelectTimesheets(p)
    \/ \E p \in Handlers : DeleteLeadTimesheets(p)
    \/ \E p \in Handlers : DeleteLeadRow(p)
    \/ \E p \in Handlers : Respond(p)
    \/ NewYear

SpecSeq == InitSeq /\ [][NextSeq]_vars

\* Cascading deletion: a store that holds the leads of earlier createLead
\* calls; one handler deletes leads, call after call, while dependents are
\* inserted at any moment between its statements.
CascadeLeadIds == 1..MaxCascadeLeads

InitDelete ==
    /\ leads = {StoredLead(id, YearPrefix(FirstYear) \o Suffix(id)) :
                  id \in CascadeLeadIds}
    /\ calls = {}
    /\ scheduledCalls = {}
    /\ timesheets = {}
    /\ activities = {}
    /\ teamMembers = {}
    /\ nextId = [leads |-> MaxCascadeLeads + 1, calls |-> 1,
                 scheduledCalls |-> 1, timesheets |-> 1, teamMembers |-> 1]
    /\ currentYear = FirstYear
    /\ now = 0
    /\ issued = <<>>
    /\ pc = [p \in {1} |-> "idle"]
    /\ loc = [p \in {1} |-> NoLocals]
    /\ ret = [p \in {1} |-> NoReturn]

\* The ids the callers pass: the stored leads' and one no lead ever had.
DeleteTargets == 1..(MaxCascadeLeads + 1)

NextDelete ==
    \/ \E p \in Handlers : \E id \in DeleteTargets : DeleteLeadSelectCalls(p, id)
    \/ \E p \in Handlers : DeleteLeadCalls(p)
    \/ \E p \in Handlers : DeleteLeadSelectScheduledCalls(p)
    \/ \E p \in Handlers : DeleteLeadScheduledCalls(p)
    \/ \E p \in Handlers : DeleteLeadSelectTimesheets(p)
    \/ \E p \in Handlers : DeleteLeadTimesheets(p)
    \/ \E p \in Handlers : DeleteLeadRow(p)
    \/ \E id \in DeleteTargets : createCall([leadId |-> id])
    \/ \E id \in DeleteTargets : createScheduledCall([leadId |-> id])
    \/ \E id \in DeleteTargets \cup {0} : createTimesheet([leadId |-> id])
    \/ \E p \in Handlers : Respond(p)

SpecDelete == InitDelete /\ [][NextDelete]_vars

\* Identifier allocation by concurrent handlers, over the turn of a year.
InitAlloc == InitEmpty(Procs)

NextAlloc ==
    \/ \E p \in Handlers : CreateLeadRead(p)
    \/ \E p \in Handlers : CreateLeadInsert(p)
    \/ \E p \in Handlers : Respond(p)
    \/ NewYear

SpecAlloc == InitAlloc /\ [][NextAlloc]_vars

\* Rows of the current year that were stored before this program's createLead
\* wrote them (imports, earlier releases): none, a well-formed one, a
\* malformed one, a malformed one after a well-formed one.

Malformed == YearPrefix(FirstYear) \o <<"0", "0", "x", "1">>

WellFormedOne == YearPrefix(FirstYear) \o <<"0", "0", "0", "1">>

LastYears == YearPrefix(FirstYear - 1) \o <<"0", "0", "0", "7">>

StoredTables ==
    { {},
      {StoredLead(1, LastYears)},
      {StoredLead(1, Malformed)},
      {StoredLead(1, LastYears), StoredLead(2, Malformed)},
      {StoredLead(1, WellFormedOne), StoredLead(2, Malformed)},
      {StoredLead(1, Malformed), StoredLead(2, WellFormedOne)} }

\* One handler, call after call, on a store that holds earlier rows.
InitStored ==
    \E table \in StoredTables :
        /\ leads = table
        /\ calls = {}
        /\ scheduledCalls = {}
        /\ timesheets = {}
        /\ activities = {}
        /\ teamMembers = {}
        /\ nextId = [leads |-> Cardinality(table) + 1, calls |-> 1,
                     scheduledCalls |-> 1, timesheets |-> 1, teamMembers |-> 1]
        /\ currentYear = FirstYear
        /\ now = 0
        /\ issued = <<>>
        /\ pc = [p \in {1} |-> "idle"]
        /\ loc = [p \in {1} |-> NoLocals]
        /\ ret = [p \in {1} |-> NoReturn]

SpecStored == InitStored /\ [][NextAlloc]_vars

\* The lead queries: a store of leads and activities, and one handler
\* that runs getLeads with one filter object after another.
QueryInputs ==
    {[DefaultInput EXCEPT !.assignedToUserId = 1],
     [DefaultInput EXCEPT !.status = <<"c">>, !.assignedToUserId = 1],
     [DefaultInput EXCEPT !.assignedToUserId = 2, !.ownerName = <<"A">>,
                          !.propertyAddress = <<"x">>]}

MaxQueryLeads == 2     \* leads in a queried store
MaxActivities == 1     \* activities in a queried store
MaxQueryRows == 2      \* scheduled calls, or timesheets, in a queried store

\* Stores createLead can build: for each id no row (a deleted lead) or the
\* row createLead wrote for one of the inputs.
QueryLeadTables ==
    {{LeadRow(id, YearPrefix(FirstYear) \o Suffix(id), choice[id][1], 0) :
         id \in {i \in 1..MaxQueryLeads : choice[i] # <<>>}} :
        choice \in [1..MaxQueryLeads -> {<<>>} \cup {<<input>> : input \in QueryInputs}]}

ActivityRows ==
    {[userId |-> u, actionType |-> k[1], targetType |-> k[2], targetId |-> t] :
        u \in {1, 2},
        k \in {<<"create", "lead">>, <<"update", "lead">>, <<"create", "call">>},
        t \in 0..MaxQueryLeads}

RECURSIVE TablesUpTo(_, _)
TablesUpTo(rows, n) ==
    IF n = 0 THEN {{}}
    ELSE LET smaller == TablesUpTo(rows, n - 1)
         IN  smaller \cup {t \cup {r} : t \in smaller, r \in rows}

ActivityTables == TablesUpTo(ActivityRows, MaxActivities)

InitQuery ==
    /\ leads \in QueryLeadTables
    /\ activities \in ActivityTables
    /\ teamMembers = {}
    /\ calls = {}
    /\ scheduledCalls = {}
    /\ timesheets = {}
    /\ nextId = [leads |-> MaxQueryLeads + 1, calls |-> 1,
                 scheduledCalls |-> 1, timesheets |-> 1, teamMembers |-> 1]
    /\ currentYear = FirstYear
    /\ now = 0
    /\ issued = <<>>
    /\ pc = [p \in {1} |-> "idle"]
    /\ loc = [p \in {1} |-> NoLocals]
    /\ ret = [p \in {1} |-> NoReturn]

CreatorFilters ==
    {[NoFilters EXCEPT !.status = st, !.assignedToUserId = a,
                       !.createdByUserId = c, !.search = se] :
        st \in {{}, {<<"n">>}}, a \in {0, 1}, c \in {0, 1},
        se \in {<<>>, <<"a">>}}

NextQuery ==
    \/ \E p \in Handlers : \E filters \in CreatorFilters : GetLeadsConditions(p, filters)
    \/ \E p \in Handlers : GetLeadsQuery(p)
    \/ \E p \in Handlers : Respond(p)

SpecQuery == InitQuery /\ [][NextQuery]_vars

\* The order and the page of getLeads: a store of leads created at the
\* times SortTimes, and one handler that asks for them with a sortBy, a
\* sortOrder, a limit and an offset.
SortInputs == {DefaultInput, [DefaultInput EXCEPT !.ownerName = <<"a">>]}

SortTimes == {1, 2}

SortLeadTables ==
    {{LeadRow(id, YearPrefix(FirstYear) \o Suffix(id), choice[id][1], choice[id][2]) :
         id \in {i \in 1..MaxQueryLeads : choice[i] # <<>>}} :
        choice \in [1..MaxQueryLeads ->
                      {<<>>} \cup {<<input, time>> : input \in SortInputs,
                                                    time \in SortTimes}]}

InitSort ==
    /\ leads \in SortLeadTables
    /\ activities = {}
    /\ teamMembers = {}
    /\ calls = {}
    /\ scheduledCalls = {}
    /\ timesheets = {}
    /\ nextId = [leads |-> MaxQueryLeads + 1, calls |-> 1,
                 scheduledCalls |-> 1, timesheets |-> 1, teamMembers |-> 1]
    /\ currentYear = FirstYear
    /\ now = 2
    /\ issued = <<>>
    /\ pc = [p \in {1} |-> "idle"]
    /\ loc = [p \in {1} |-> NoLocals]
    /\ ret = [p \in {1} |-> NoReturn]

\* sortBy: omitted, an allow-listed column, an unknown name, a name every
\* object inherits; limit and offset: omitted or a number.
SortFilters ==
    {[NoFilters EXCEPT !.sortBy = by, !.sortOrder = order,
                       !.limit = limit, !.offset = offset] :
        by \in {"", "ownerName", "bogus", "constructor"},
        order \in {"", "asc", "desc"},
        limit \in {Absent, 0, 1}, offset \in {Absent, 0, 1}}

NextSort ==
    \/ \E p \in Handlers : \E filters \in SortFilters : GetLeadsConditions(p, filters)
    \/ \E p \in Handlers : GetLeadsQuery(p)
    \/ \E p \in Handlers : Respond(p)

SpecSort == InitSort /\ [][NextSort]_vars

\* The search of getLeads: leads whose searchable fields differ in letter
\* case, and one handler that searches them for one term after another.
SearchInputs ==
    {DefaultInput,
     [DefaultInput EXCEPT !.propertyAddress = <<"x">>, !.ownerName = <<"A", "b">>,
                          !.ownerEmail = <<"x">>],
     [DefaultInput EXCEPT !.propertyAddress = <<"x">>, !.ownerName = <<"x">>,
                          !.ownerPhone = <<"x">>, !.ownerEmail = <<"x", "_">>]}

SearchLeadTables ==
    {{LeadRow(id, YearPrefix(FirstYear) \o Suffix(id), choice[id][1], 0) :
         id \in {i \in 1..MaxQueryLeads : choice[i] # <<>>}} :
        choice \in [1..MaxQueryLeads -> {<<>>} \cup {<<input>> : input \in SearchInputs}]}

InitSearch ==
    /\ leads \in SearchLeadTables
    /\ activities = {}
    /\ teamMembers = {}
    /\ calls = {}
    /\ scheduledCalls = {}
    /\ timesheets = {}
    /\ nextId = [leads |-> MaxQueryLeads + 1, calls |-> 1,
                 scheduledCalls |-> 1, timesheets |-> 1, teamMembers |-> 1]
    /\ currentYear = FirstYear
    /\ now = 0
    /\ issued = <<>>
    /\ pc = [p \in {1} |-> "idle"]
    /\ loc = [p \in {1} |-> NoLocals]
    /\ ret = [p \in {1} |-> NoReturn]

SearchTerms ==
    {<<"a">>, <<"A">>, <<"b">>, <<"a", "b">>, <<"1">>, <<"_">>, <<"%">>}

SearchFilters == {[NoFilters EXCEPT !.search = term] : term \in SearchTerms}

NextSearch ==
    \/ \E p \in Handlers : \E filters \in SearchFilters : GetLeadsConditions(p, filters)
    \/ \E p \in Handlers : GetLeadsQuery(p)
    \/ \E p \in Handlers : Respond(p)

SpecSearch == InitSearch /\ [][NextSearch]_vars

\* The team members, in turn: one handler upserts the rows of the users,
\* call after call, while the clock moves on.
TeamMemberInputs ==
    {[userId |-> u, role |-> r] : u \in 1..MaxUsers, r \in {"a", "b"}}

InitTeamSeq == InitEmpty({1})

NextTeamSeq ==
    \/ \E p \in Handlers : \E m \in TeamMemberInputs : TeamMemberLookup(p, m)
    \/ \E p \in Handlers : TeamMemberWrite(p)
    \/ \E p \in Handlers : Respond(p)
    \/ Tick

SpecTeamSeq == InitTeamSeq /\ [][NextTeamSeq]_vars

\* The team members, concurrently: the handlers upsert the rows of the
\* users, their lookups and writes interleaved.
InitTeam == InitEmpty(Procs)

NextTeam ==
    \/ \E p \in Handlers : \E u \in 1..MaxUsers :
           TeamMemberLookup(p, [userId |-> u, role |-> "a"])
    \/ \E p \in Handlers : TeamMemberWrite(p)
    \/ \E p \in Handlers : Respond(p)

SpecTeam == InitTeam /\ [][NextTeam]_vars

\* The updates: a store with leads, a scheduled call and a timesheet, and
\* one handler that updates rows by id, call after call, the id of no row
\* included, while the clock moves on.
UpdateIds == 1..(MaxCascadeLeads + 1)

LeadPartials ==
    {Partial({}, DefaultInput),
     Partial({"status"}, [DefaultInput EXCEPT !.status = <<"c">>]),
     Partial({"status", "ownerName"},
             [DefaultInput EXCEPT !.status = <<"x">>, !.ownerName = <<"a">>])}

ScheduledCallPartials ==
    {Partial({}, [status |-> "p"]), Partial({"status"}, [status |-> "d"])}

TimesheetPartials == {Partial({"approved"}, [approved |-> TRUE])}

InitUpdate ==
    /\ leads = {StoredLead(id, YearPrefix(FirstYear) \o Suffix(id)) :
                  id \in 1..MaxCascadeLeads}
    /\ calls = {}
    /\ scheduledCalls = {ScheduledCallRow(1, 1, "p", 1, 0)}
    /\ timesheets = {TimesheetRow(1, 1, 1, 0, FALSE)}
    /\ activities = {}
    /\ teamMembers = {}
    /\ nextId = [leads |-> MaxCascadeLeads + 1, calls |-> 1,
                 scheduledCalls |-> 2, timesheets |-> 2, teamMembers |-> 1]
    /\ currentYear = FirstYear
    /\ now = 0
    /\ issued = <<>>
    /\ pc = [p \in {1} |-> "idle"]
    /\ loc = [p \in {1} |-> NoLocals]
    /\ ret = [p \in {1} |-> NoReturn]

NextUpdate ==
    \/ \E p \in Handlers : \E id \in UpdateIds : \E data \in LeadPartials :
           updateLead(p, id, data)
    \/ \E p \in Handlers : \E id \in UpdateIds : \E data \in ScheduledCallPartials :
           updateScheduledCall(p, id, data)
    \/ \E p \in Handlers : \E id \in UpdateIds : \E data \in TimesheetPartials :
           updateTimesheet(p, id, data)
    \/ \E p \in Handlers : Respond(p)
    \/ Tick

SpecUpdate == InitUpdate /\ [][NextUpdate]_vars

\* The range queries: a store of scheduled calls or of timesheets, and one
\* handler that asks for them with one filter object after another.
ScheduledCallTables ==
    {{ScheduledCallRow(id, 1, choice[id][1], choice[id][2], choice[id][3]) :
         id \in {i \in 1..MaxQueryRows : choice[i] # <<>>}} :
        choice \in [1..MaxQueryRows ->
                      {<<>>} \cup {<<status, caller, time>> :
                                      status \in {"p", "d"}, caller \in {1, 2},
                                      time \in 0..2}]}

TimesheetTables ==
    {{TimesheetRow(id, 0, choice[id][1], choice[id][2], choice[id][3]) :
         id \in {i \in 1..MaxQueryRows : choice[i] # <<>>}} :
        choice \in [1..MaxQueryRows ->
                      {<<>>} \cup {<<user, date, approved>> :
                                      user \in {1, 2}, date \in 0..2,
                                      approved \in BOOLEAN}]}

InitRange ==
    /\ leads = {StoredLead(1, YearPrefix(FirstYear) \o Suffix(1))}
    /\ calls = {}
    /\ \/ scheduledCalls \in ScheduledCallTables /\ timesheets = {}
       \/ scheduledCalls = {} /\ timesheets \in TimesheetTables
    /\ activities = {}
    /\ teamMembers = {}
    /\ nextId = [leads |-> 2, calls |-> 1, scheduledCalls |-> MaxQueryRows + 1,
                 timesheets |-> MaxQueryRows + 1, teamMembers |-> 1]
    /\ currentYear = FirstYear
    /\ now = 0
    /\ issued = <<>>
    /\ pc = [p \in {1} |-> "idle"]
    /\ loc = [p \in {1} |-> NoLocals]
    /\ ret = [p \in {1} |-> NoReturn]

\* sortOrder is no field of ScheduledCallFilters: a caller that passes one
\* all the same.
ScheduledCallFilterInputs ==
    {[status |-> status, userId |-> user, startDate |-> start, endDate |-> end,
      sortOrder |-> order] :
        status \in {"", "p"}, user \in {0, 1}, start \in {Absent, 1},
        end \in {Absent, 1, 2}, order \in {"", "desc"}}

TimesheetFilterInputs ==
    {[userId |-> user, startDate |-> start, endDate |-> end, approved |-> approved] :
        user \in {0, 1}, start \in {Absent, 2, 3}, end \in {Absent, 2, 5},
        approved \in {{}, {TRUE}, {FALSE}}}

NextRange ==
    \/ \E p \in Handlers : \E filters \in ScheduledCallFilterInputs :
           getScheduledCalls(p, filters)
    \/ \E p \in Handlers : \E filters \in TimesheetFilterInputs :
           getTimesheets(p, filters)
    \/ \E p \in Handlers : Respond(p)

SpecRange == InitRange /\ [][NextRange]_vars

\* Cascading deletion running alone: a store with leads, activities on
\* them and a team member; dependents are inserted only between the calls
\* of the one handler that deletes leads.
AloneLeadIds == 1..(MaxCascadeLeads + 1)

InitAlone ==
    /\ leads = {StoredLead(id, YearPrefix(FirstYear) \o Suffix(id)) :
                  id \in AloneLeadIds}
    /\ calls = {}
    /\ scheduledCalls = {}
    /\ timesheets = {}
    /\ activities = {[userId |-> 1, actionType |-> "create", targetType |-> "lead",
                       targetId |-> id] : id \in AloneLeadIds}
    /\ teamMembers = {[id |-> 1, userId |-> 1, role |-> "a", lastActivityAt |-> 0]}
    /\ nextId = [leads |-> MaxCascadeLeads + 2, calls |-> 1,
                 scheduledCalls |-> 1, timesheets |-> 1, teamMembers |-> 2]
    /\ currentYear = FirstYear
    /\ now = 0
    /\ issued = <<>>
    /\ pc = [p \in {1} |-> "idle"]
    /\ loc = [p \in {1} |-> NoLocals]
    /\ ret = [p \in {1} |-> NoReturn]

\* No call is in progress.
Quiet == \A p \in Handlers : pc[p] = "idle"

NextAlone ==
    \/ \E p \in Handlers : \E id \in AloneLeadIds : DeleteLeadSelectCalls(p, id)
    \/ \E p \in Handlers : DeleteLeadCalls(p)
    \/ \E p \in Handlers : DeleteLeadSelectScheduledCalls(p)
    \/ \E p \in Handlers : DeleteLeadScheduledCalls(p)
    \/ \E p \in Handlers : DeleteLeadSelectTimesheets(p)
    \/ \E p \in Handlers : DeleteLeadTimesheets(p)
    \/ \E p \in Handlers : DeleteLeadRow(p)
    \/ Quiet /\ \E id \in AloneLeadIds : createCall([leadId |-> id])
    \/ Quiet /\ \E id \in 1..MaxCascadeLeads : createScheduledCall([leadId |-> id])
    \/ Quiet /\ \E id \in 0..MaxCascadeLeads : createTimesheet([leadId |-> id])
    \/ \E p \in Handlers : Respond(p)

SpecAlone == InitAlone /\ [][NextAlone]_vars

(***************************************************************************)
(* Properties.                                                             *)
(***************************************************************************)
Created(p) == ret[p].op = "createLead" /\ ret[p].status = "ok"

HasMalformedSuffix(leadId) ==
    ~(Len(leadId) > PrefixWidth
      /\ AllDigits(SubSeq(leadId, PrefixWidth + 1, Len(leadId))))

\* C1: under every interleaving of the read and insert steps of concurrent
\* createLead calls, no call is refused for a collision of identifiers and
\* no two stored leads share a leadId.
C1_ConcurrentCreatesSucceedUnique ==
    /\ \A p \in Handlers : ret[p].op = "createLead" => ret[p].status # "conflict"
    /\ \A l1, l2 \in leads : l1.leadId = l2.leadId => l1 = l2

\* No lead has been removed: every id the serial handed out is still stored.
NoDeletion == nextId.leads = Cardinality(leads) + 1

\* The stored leads of prefix that were created no later than lead l.
CreatedUpTo(l, prefix) ==
    {m \in leads : m.id <= l.id /\ StartsWith(m.leadId, prefix)}

\* C2: createLead calls run one after another, with no deletion: no call
\* collides, the leadIds are pairwise distinct, and the k-th lead created
\* for a year prefix carries that prefix followed by k, zero-padded (the
\* suffixes increase in creation order by exactly 1).
C2_SequentialSuffixes ==
    NoDeletion =>
        /\ \A p \in Handlers : ret[p].op = "createLead" => ret[p].status # "conflict"
        /\ \A l1, l2 \in leads : l1.leadId = l2.leadId => l1 = l2
        /\ \A l \in leads :
             \E year \in FirstYear..currentYear :
                 l.leadId = YearPrefix(year)
                              \o Suffix(Cardinality(CreatedUpTo(l, YearPrefix(year))))

\* Three leads created in turn within one year, the last with suffix 3.
C2_Witness ==
    /\ NoDeletion
    /\ Cardinality(leads) >= 3
    /\ \A l \in leads : StartsWith(l.leadId, getCurrentYearPrefix)
    /\ \E p \in Handlers : Created(p) /\ extractLeadNumber(ret[p].rows[1].leadId) = 3

DeleteSucceeded(p) == ret[p].op = "deleteLead" /\ ret[p].status = "true"

\* C3: once deleteLead(id) has returned true, no Lead has that id, no Call,
\* ScheduledCall or Timesheet has that leadId, and the lookups by id of the
\* lead and of the dependents it found return nothing.
C3_DeleteRemovesLeadAndDependents ==
    \A p \in Handlers :
        DeleteSucceeded(p) =>
            /\ getLead(loc[p].id) = {}
            /\ ~Referenced(loc[p].id)
            /\ \A c \in loc[p].relatedCalls : getCall(c.id) = {}
            /\ \A c \in loc[p].relatedScheduledCalls : getScheduledCall(c.id) = {}
            /\ \A t \in loc[p].relatedTimesheets : getTimesheet(t.id) = {}

C3_Witness ==
    \E p \in Handlers :
        /\ DeleteSucceeded(p)
        /\ Cardinality(loc[p].relatedCalls) = 2
        /\ Cardinality(loc[p].relatedScheduledCalls) = 1
        /\ Cardinality(loc[p].relatedTimesheets) = 1

DeleteFailed(p) ==
    ret[p].op = "deleteLead" /\ ret[p].status \in {"error", "refused"}

\* C4: when a statement of deleteLead fails, the call reports the failure and
\* every dependent row the call found is still stored (nothing was removed).
C4_FailedDeleteRemovesNothing ==
    \A p \in Handlers :
        DeleteFailed(p) =>
            /\ loc[p].relatedCalls \subseteq calls
            /\ loc[p].relatedScheduledCalls \subseteq scheduledCalls
            /\ loc[p].relatedTimesheets \subseteq timesheets

\* C5: deleteLead of an id that no lead has does not report success: the
\* call returns true only when its last statement removed a lead row.
C5_DeleteOfMissingLeadIsNotSuccess ==
    [][\A p \in Handlers :
          (pc[p] = "deleteLead_lead" /\ ret'[p].status = "true")
              => LeadExists(loc[p].id)]_vars

C7_CollisionRetriedBeforeFailure ==
    \A p \in Handlers :
        (ret[p].op = "createLead" /\ ret[p].status = "conflict")
            => loc[p].attempts > 1

\* C8: a createLead that reads a store holding no lead of the current year
\* prefix generates that prefix followed by 0001, and a successful insert
\* stores and returns the lead under the generated identifier.
C8_FirstLeadOfYearGetsOne ==
    /\ [][\A p \in Handlers :
            (/\ pc[p] = "idle"
             /\ pc'[p] = "createLead_insert"
             /\ ~\E l \in leads : StartsWith(l.leadId, getCurrentYearPrefix))
                => loc'[p].newLeadId = getCurrentYearPrefix \o <<"0", "0", "0", "1">>]_vars
    /\ [][\A p \in Handlers :
            (pc[p] = "createLead_insert" /\ ret'[p].status = "ok")
                => /\ ret'[p].rows[1].leadId = loc[p].newLeadId
                   /\ ret'[p].rows[1] \in leads']_vars

\* The first lead of the new year is stored with suffix 1 while last year's
\* leads reach suffix 2 or more.
C8_Witness ==
    \E p \in Handlers :
        /\ Created(p)
        /\ ret[p].rows[1].leadId = YearPrefix(FirstYear + 1) \o <<"0", "0", "0", "1">>
        /\ \E l \in leads : /\ StartsWith(l.leadId, YearPrefix(FirstYear))
                            /\ extractLeadNumber(l.leadId) >= 2

ReadMalformed(p) ==
    /\ loc[p].latestLead # {}
    /\ \A l \in loc[p].latestLead : HasMalformedSuffix(l.leadId)

\* C9 as claimed: a createLead whose latest lead of the year has a malformed
\* suffix is never refused, and stores the year prefix followed by 0001.
C9_MalformedNeverFails ==
    \A p \in Handlers :
        (ret[p].op = "createLead" /\ ReadMalformed(p))
            => /\ ret[p].status # "conflict"
               /\ ret[p].status = "ok" =>
                    ret[p].rows[1].leadId =
                        SubSeq(ret[p].rows[1].leadId, 1, PrefixWidth) \o Suffix(1)

\* C9 as amended: such a createLead generates the prefix of the lead it read
\* followed by 0001, as from last number 0; a successful insert stores that
\* identifier, and the insert is refused only when that identifier is stored.
C9_MalformedCountsAsZero ==
    \A p \in Handlers :
        ReadMalformed(p) =>
            /\ \A l \in loc[p].latestLead :
                 loc[p].newLeadId = SubSeq(l.leadId, 1, PrefixWidth) \o Suffix(1)
            /\ Created(p) => ret[p].rows[1].leadId = loc[p].newLeadId
            /\ (ret[p].op = "createLead" /\ ret[p].status = "conflict")
                 => LeadIdTaken(loc[p].newLeadId)

C9_Witness ==
    \E p \in Handlers :
        /\ ReadMalformed(p)
        /\ Created(p)
        /\ extractLeadNumber(ret[p].rows[1].leadId) = 1

\* C10: when the activity lookup of getLeads for createdByUserId = u was
\* answered and the activity log holds no "create" row on a lead by u, the
\* result is the empty list, whatever the other filters and the store hold.
C10_NoCreationsGivesEmptyList ==
    \A p \in Handlers :
        LET u == loc[p].filters.createdByUserId
        IN  (/\ ret[p].op = "getLeads"
             /\ ret[p].status = "ok"
             /\ u # 0
             /\ loc[p].creatorFilter
             /\ ~\E a \in activities : /\ a.userId = u
                                       /\ a.actionType = "create"
                                       /\ a.targetType = "lead")
                => ret[p].rows = <<>>

\* The empty list is returned for a user with activities but no creation,
\* while leads that satisfy the other filters are stored.
C10_Witness ==
    \E p \in Handlers :
        /\ ret[p].op = "getLeads"
        /\ ret[p].status = "ok"
        /\ ret[p].rows = <<>>
        /\ loc[p].creatorFilter
        /\ \E a \in activities : a.userId = loc[p].filters.createdByUserId
        /\ ~\E a \in activities : /\ a.userId = loc[p].filters.createdByUserId
                                  /\ a.actionType = "create"
                                  /\ a.targetType = "lead"
        /\ \E l \in leads : MatchesFilters(l, loc[p].filters, FALSE, {})

\* The call of getLeads by handler p has returned a list.
GotLeads(p) == ret[p].op = "getLeads" /\ ret[p].status = "ok"

\* The lists a request sorted by createdAt returns: the stored leads, in an
\* order by createdAt (descending unless sortOrder is "asc"), paged.
DefaultOrderResults(filters) ==
    {Page(s, filters.limit, filters.offset) :
        s \in Orderings(leads, "createdAt", filters.sortOrder)}

\* C11: a getLeads whose sortBy is none of the allow-listed column names
\* (the names of built-in object properties included) returns a list that
\* the same request without sortBy returns: ordered by createdAt,
\* descending unless sortOrder is "asc".
C11_UnknownSortByFallsBack ==
    \A p \in Handlers :
        (GotLeads(p) /\ loc[p].filters.sortBy \notin SortableColumns)
            => ret[p].rows \in DefaultOrderResults(loc[p].filters)

\* Letters and their lower-case forms; every other character is its own.
UpperCase == <<"A", "B", "C", "N", "X">>

LowerCase == <<"a", "b", "c", "n", "x">>

ToLower(text) ==
    [i \in DOMAIN text |->
        IF \E k \in DOMAIN UpperCase : UpperCase[k] = text[i]
        THEN LowerCase[CHOOSE k \in DOMAIN UpperCase : UpperCase[k] = text[i]]
        ELSE text[i]]

\* term occurs in text as a run of consecutive characters
Contains(text, term) ==
    \E from \in 1..(Len(text) - Len(term) + 1) :
        SubSeq(text, from, from + Len(term) - 1) = term

\* The leads one of whose four searchable fields contains term, letter case
\* ignored.
SearchHits(term) ==
    {l \in leads :
        \E field \in {"propertyAddress", "ownerName", "ownerPhone", "ownerEmail"} :
            Contains(ToLower(l[field]), ToLower(term))}

RowsOf(rows) == {rows[i] : i \in DOMAIN rows}

\* C12: a getLeads with a non-empty search and no other filter returns
\* exactly the leads one of whose propertyAddress, ownerName, ownerPhone,
\* ownerEmail contains the search string as a substring, letter case ignored.
C12_SearchIgnoresCase ==
    \A p \in Handlers :
        (GotLeads(p) /\ loc[p].filters.search # <<>>
                     /\ loc[p].filters.limit = Absent
                     /\ loc[p].filters.offset = Absent
                     /\ loc[p].filters.status = {}
                     /\ loc[p].filters.assignedToUserId = 0
                     /\ loc[p].filters.createdByUserId = 0)
            => RowsOf(ret[p].rows) = SearchHits(loc[p].filters.search)

Upserted(p) == ret[p].op = "createOrUpdateTeamMember" /\ ret[p].status = "ok"

\* C13: a createOrUpdateTeamMember that completes leaves exactly one row for
\* its userId; the row carries the fields of this call, its lastActivityAt is
\* the time of this call and is not earlier than the one the row had (so of
\* two calls in turn the second overwrites the first and advances the time).
C13_SecondUpsertOverwrites ==
    [][\A p \in Handlers :
          (pc[p] = "createOrUpdateTeamMember_write" /\ Upserted(p)')
              => LET insertTeamMember == loc[p].insertTeamMember
                     before == getTeamMember(insertTeamMember.userId)
                     after == {m \in teamMembers' : m.userId = insertTeamMember.userId}
                 IN  /\ Cardinality(after) = 1
                     /\ after = {ret'[p].rows[1]}
                     /\ \A m \in after :
                           /\ m.role = insertTeamMember.role
                           /\ m.lastActivityAt = now
                           /\ \A old \in before :
                                 /\ old.lastActivityAt <= m.lastActivityAt
                                 /\ old.id = m.id]_vars

\* A second call in turn has replaced the role the first call stored and
\* advanced lastActivityAt.
C13_Witness ==
    \E p \in Handlers :
        /\ Upserted(p)
        /\ \E old \in loc[p].existingMember :
              /\ old.role # ret[p].rows[1].role
              /\ old.lastActivityAt < ret[p].rows[1].lastActivityAt
        /\ teamMembers = {ret[p].rows[1]}

Identities == {<<l.id, l.leadId>> : l \in leads}

UpdatedTable(op) ==
    IF op = "updateLead" THEN leads
    ELSE IF op = "updateScheduledCall" THEN scheduledCalls
    ELSE timesheets

UpdateOps == {"updateLead", "updateScheduledCall", "updateTimesheet"}

SearchedColumns == {"propertyAddress", "ownerName", "ownerPhone", "ownerEmail"}

\* Lead l satisfies the status, the assignee and the search of filters.
SatisfiesOthers(l, filters) ==
    /\ filters.status # {} => l.status \in filters.status
    /\ filters.assignedToUserId # 0 => l.assignedToUserId = filters.assignedToUserId
    /\ filters.search # <<>> =>
          \E column \in SearchedColumns : Contains(l[column], filters.search)

\* The lists of the leads in wanted, ordered and paged as filters asks.
ResultsFor(wanted, filters) ==
    {Page(s, filters.limit, filters.offset) :
        s \in Orderings(wanted, SortColumn(filters.sortBy), filters.sortOrder)}

\* The activity lookup of handler p's getLeads has failed.
LookupFailed(p) == loc[p].filters.createdByUserId # 0 /\ ~loc[p].creatorFilter

\* C17: a failure of the activity lookup for createdByUserId does not fail
\* getLeads: the call goes on to its query and returns the leads that
\* satisfy the status, assignee and search filters, ordered and paged as
\* asked, with no constraint on the creator.
C17_LookupFailureDropsCreatorFilter ==
    /\ [][\A p \in Handlers :
             (pc[p] = "idle" /\ pc'[p] # "idle" /\ LookupFailed(p)')
                 => pc'[p] = "getLeads_query"]_vars
    /\ [](\A p \in Handlers :
             (GotLeads(p) /\ LookupFailed(p))
                 => ret[p].rows \in
                      ResultsFor({l \in leads : SatisfiesOthers(l, loc[p].filters)},
                                 loc[p].filters))

\* The lookup failed and the list holds a lead the user did not create.
C17_Witness ==
    \E p \in Handlers :
        /\ GotLeads(p)
        /\ LookupFailed(p)
        /\ \E i \in DOMAIN ret[p].rows :
              ret[p].rows[i].id \notin CreationTargets(loc[p].filters.createdByUserId)
        /\ \E l \in leads : ~SatisfiesOthers(l, loc[p].filters)

\* Lead l satisfies every filter of filters that is supplied.
SatisfiesAll(l, filters) ==
    /\ SatisfiesOthers(l, filters)
    /\ filters.createdByUserId # 0 => l.id \in CreationTargets(filters.createdByUserId)

\* C18: with no limit and no offset, and the activity lookup answered, the
\* list of getLeads holds exactly the leads that satisfy every supplied
\* filter at once (status in the set, assignee equal, created by the
\* creator, search matching one of the four fields), each once.
C18_FiltersAreConjoined ==
    \A p \in Handlers :
        (/\ GotLeads(p)
         /\ ~LookupFailed(p)
         /\ loc[p].filters.limit = Absent
         /\ loc[p].filters.offset = Absent)
            => /\ RowsOf(ret[p].rows) = {l \in leads : SatisfiesAll(l, loc[p].filters)}
               /\ Len(ret[p].rows) = Cardinality(RowsOf(ret[p].rows))

\* All four filters were supplied; a lead that satisfies them came back and
\* leads that fail only one of them were left out.
C18_Witness ==
    \E p \in Handlers :
        LET filters == loc[p].filters
        IN  /\ GotLeads(p)
            /\ filters.status # {} /\ filters.assignedToUserId # 0
            /\ filters.createdByUserId # 0 /\ filters.search # <<>>
            /\ loc[p].creatorFilter
            /\ ret[p].rows # <<>>
            /\ \E l \in leads :
                  /\ ~SatisfiesAll(l, filters)
                  /\ \/ SatisfiesOthers(l, filters)
                     \/ SatisfiesAll(l, [filters EXCEPT !.search = <<>>])
                     \/ SatisfiesAll(l, [filters EXCEPT !.status = {}])
                     \/ SatisfiesAll(l, [filters EXCEPT !.assignedToUserId = 0])

\* The rows of list s that follow the first skip rows, at most keep of them
\* (Absent: none skipped, all kept).
Window(s, keep, skip) ==
    LET skipped == IF skip = Absent THEN 0 ELSE skip
        left == IF Len(s) > skipped THEN Len(s) - skipped ELSE 0
        kept == IF keep = Absent \/ keep > left THEN left ELSE keep
    IN  [i \in 1..kept |-> s[skipped + i]]

\* C19: the list of getLeads is the sorted list of the leads with the first
\* offset rows skipped, when offset is a number, and at most limit rows
\* kept, when limit is a number; with neither, it is the whole sorted list.
C19_LimitAndOffsetOnlyWhenNumeric ==
    \A p \in Handlers :
        GotLeads(p) =>
            LET filters == loc[p].filters
            IN  /\ \E s \in Orderings(leads, SortColumn(filters.sortBy), filters.sortOrder) :
                      ret[p].rows = Window(s, filters.limit, filters.offset)
                /\ (filters.limit = Absent /\ filters.offset = Absent)
                      => RowsOf(ret[p].rows) = leads

\* Pages of a store of two leads: the second row alone (offset 1), no row
\* (limit 0), the whole list (neither given).
C19_Witness ==
    \E p \in Handlers :
        LET filters == loc[p].filters
        IN  /\ GotLeads(p)
            /\ Cardinality(leads) = 2
            /\ \/ filters.limit = 1 /\ filters.offset = 1 /\ Len(ret[p].rows) = 1
               \/ filters.limit = 0 /\ filters.offset = Absent /\ ret[p].rows = <<>>

\* The list rows holds each row once, in the order of column (descending
\* or ascending).
InOrder(rows, column, descending) ==
    /\ Len(rows) = Cardinality(RowsOf(rows))
    /\ \A i, j \in DOMAIN rows :
          i < j => IF descending THEN rows[i][column] >= rows[j][column]
                   ELSE rows[i][column] <= rows[j][column]

\* C20: getScheduledCalls returns exactly the scheduled calls that match
\* the supplied status and user and whose scheduledTime lies between
\* startDate and endDate, both included, in ascending scheduledTime;
\* getTimesheets returns exactly the timesheets that match the supplied
\* user and approved flag and whose date lies between the days of startDate
\* and endDate, both included, in descending date; nothing the caller
\* passes changes the order.
C20_RangesInclusiveOrderFixed ==
    \A p \in Handlers :
        LET filters == loc[p].filters
        IN  /\ (ret[p].op = "getScheduledCalls" /\ ret[p].status = "ok")
                  => /\ RowsOf(ret[p].rows) =
                          {c \in scheduledCalls :
                              /\ filters.status # "" => c.status = filters.status
                              /\ filters.userId # 0 => c.assignedCallerId = filters.userId
                              /\ filters.startDate # Absent
                                    => filters.startDate <= c.scheduledTime
                              /\ filters.endDate # Absent
                                    => c.scheduledTime <= filters.endDate}
                     /\ InOrder(ret[p].rows, "scheduledTime", FALSE)
            /\ (ret[p].op = "getTimesheets" /\ ret[p].status = "ok")
                  => /\ RowsOf(ret[p].rows) =
                          {t \in timesheets :
                              /\ filters.userId # 0 => t.userId = filters.userId
                              /\ filters.approved # {} => t.approved \in filters.approved
                              /\ filters.startDate # Absent
                                    => IsoDay(filters.startDate) <= t.date
                              /\ filters.endDate # Absent
                                    => t.date <= IsoDay(filters.endDate)}
                     /\ InOrder(ret[p].rows, "date", TRUE)

\* A scheduled call at startDate and a later one at endDate came back, in
\* that order, for a caller that asked for the descending order.
C20_Witness ==
    \E p \in Handlers :
        /\ ret[p].op = "getScheduledCalls" /\ ret[p].status = "ok"
        /\ loc[p].filters.sortOrder = "desc"
        /\ Len(ret[p].rows) = 2
        /\ ret[p].rows[1].scheduledTime = loc[p].filters.startDate
        /\ ret[p].rows[2].scheduledTime = loc[p].filters.endDate
        /\ loc[p].filters.startDate < loc[p].filters.endDate

\* C21: of the leadIds that createLead calls run one after another (with
\* deleteLead calls between them) have issued under one year prefix, each
\* has a greater numeric suffix than every one issued before it; no leadId
\* is issued twice, also after its lead was deleted.
C21_IssuedSuffixesIncrease ==
    \A i, j \in DOMAIN issued :
        (i < j /\ SubSeq(issued[i], 1, PrefixWidth) = SubSeq(issued[j], 1, PrefixWidth))
            => extractLeadNumber(issued[i]) < extractLeadNumber(issued[j])

\* How many of its statements the deleteLead of handler p has run.
Stage(p) ==
    CASE pc[p] = "deleteLead_calls" -> 1
      [] pc[p] = "deleteLead_selectScheduledCalls" -> 2
      [] pc[p] = "deleteLead_scheduledCalls" -> 3
      [] pc[p] = "deleteLead_selectTimesheets" -> 4
      [] pc[p] = "deleteLead_timesheets" -> 5
      [] pc[p] = "deleteLead_lead" -> 6
      [] OTHER -> 0

\* C22: a deleteLead(id) running alone removes the calls of the lead, then
\* its scheduled calls, then its timesheets, then the lead row: after each
\* statement the rows it removes are gone, every table changes only at its
\* own statement, and whenever the lead row is absent nothing references it.
C22_DependentsBeforeParent ==
    /\ [](\A p \in Handlers :
             LET id == loc[p].id
             IN  /\ Stage(p) >= 2 => ~\E c \in calls : c.leadId = id
                 /\ Stage(p) >= 4 => ~\E c \in scheduledCalls : c.leadId = id
                 /\ Stage(p) >= 6 => ~\E t \in timesheets : t.leadId = id
                 /\ (Stage(p) >= 1 /\ ~LeadExists(id)) => ~Referenced(id))
    /\ [][\A p \in Handlers :
             Stage(p) >= 1 =>
                 /\ calls' # calls => Stage(p) = 1
                 /\ scheduledCalls' # scheduledCalls => Stage(p) = 3
                 /\ timesheets' # timesheets => Stage(p) = 5
                 /\ leads' # leads => (Stage(p) = 6 /\ ~Referenced(loc[p].id))]_vars

\* The dependents the call found are gone and the lead row is still stored:
\* the state before the last statement.
C22_Witness ==
    \E p \in Handlers :
        /\ Stage(p) = 6
        /\ loc[p].relatedCalls # {}
        /\ loc[p].relatedScheduledCalls # {}
        /\ loc[p].relatedTimesheets # {}
        /\ LeadExists(loc[p].id)
        /\ ~Referenced(loc[p].id)

\* The rows of a table of dependents that do not reference lead id.
Others(table, id) == {r \in table : r.leadId # id}

\* C23: no statement of deleteLead(id) changes a lead other than id, a
\* Call, ScheduledCall or Timesheet of another lead or of no lead, an
\* activity (those on lead id included) or a team member.
C23_DeleteLeadFrame ==
    [][\A p \in Handlers :
          Stage(p) >= 1 =>
              LET id == loc[p].id
              IN  /\ LeadsWithout(id)' = LeadsWithout(id)
                  /\ Others(calls, id)' = Others(calls, id)
                  /\ Others(scheduledCalls, id)' = Others(scheduledCalls, id)
                  /\ Others(timesheets, id)' = Others(timesheets, id)
                  /\ UNCHANGED <<activities, teamMembers>>]_vars

\* A lead with dependents was deleted while another lead had a call, a
\* timesheet had no lead, and the log holds an activity on the deleted lead.
C23_Witness ==
    \E p \in Handlers :
        /\ DeleteSucceeded(p)
        /\ loc[p].relatedCalls # {}
        /\ \E c \in calls : c.leadId # loc[p].id
        /\ \E t \in timesheets : t.leadId = 0
        /\ \E l \in leads : l.id # loc[p].id
        /\ \E a \in activities : a.targetId = loc[p].id
        /\ teamMembers # {}

====
